---- MODULE Spec2Model ----
(***************************************************************************)
(* A model of the list, detail and export views of oclapi:                 *)
(*   django-nonrel/ocl/oclapi/mixins.py   ListWithHeadersMixin             *)
(*   django-nonrel/ocl/sources/views.py   the Source / SourceVersion views *)
(*                                                                         *)
(* Spec        the source-version export and destroy views, with requests  *)
(*             of two clients interleaved and the export worker running    *)
(*             beside them.                                                *)
(* SpecPrepend ListWithHeadersMixin.prepend_head as a pure function.       *)
(* SpecList    ListWithHeadersMixin.list over a queryset.                  *)
(* SpecDetail  SourceRetrieveUpdateDestroyView.retrieve.                   *)
(* SpecLatest  SourceVersionRetrieveUpdateView.get_object, latest version. *)
(***************************************************************************)
EXTENDS Integers, Sequences, FiniteSets, TLC

VARIABLES released, is_active, store, inflight, req,
          objects, prepended,
          object_list, facets_attr, response,
          children, detail,
          versions, latest

vars == <<released, is_active, store, inflight, req,
          objects, prepended, object_list, facets_attr, response,
          children, detail, versions, latest>>

(***************************************************************************)
(* Python truthiness of the values the views test with `if x:` / `or`.     *)
(* A header or query parameter that is absent reads as the default False;  *)
(* one that is present reads as its string, and a string is truthy unless  *)
(* it is empty.                                                            *)
(***************************************************************************)
Absent == "<absent>"

Truthy(s) == s # Absent /\ s # ""

\* mixins.py:7
HEAD == "HEAD"

\* What a step of one view leaves alone: the inputs and results of the others.
not_export == <<objects, prepended, object_list, facets_attr, response,
                children, detail, versions, latest>>

export_vars  == <<released, is_active, store, inflight, req>>
prepend_vars == <<objects, prepended>>
list_vars    == <<object_list, facets_attr, response>>
detail_vars  == <<children, detail>>
latest_vars  == <<versions, latest>>

(***************************************************************************)
(*                    THE EXPORT AND DESTROY VIEWS                         *)
(***************************************************************************)

\* The versions of one source; a version is identified by its mnemonic.
Versions == {HEAD, "v1", "v2"}

Clients == {"c1", "c2"}

\* The url of a response: None, or the url key.generate_url(expires) signs.
NoUrl == [key |-> "None", expires |-> 0]

generate_url(v, expires) == [key |-> v, expires |-> expires]

\* A client with no request in progress and no response yet.
NoRequest == [pc |-> "idle", op |-> "NONE", version |-> HEAD, key |-> FALSE,
              is_staff |-> FALSE, status |-> 0, url |-> NoUrl]

\* A request of client c that has read what it needs and not yet answered.
Pending(op, v, key) ==
    [pc |-> op, op |-> op, version |-> v, key |-> key,
     is_staff |-> FALSE, status |-> 0, url |-> NoUrl]

\* The answer to a request: an HttpResponse with a status and a Location.
Answered(r, status, url) == [r EXCEPT !.pc = "done", !.status = status, !.url = url]

CanStart(c) == req[c].pc \in {"idle", "done"}

\* version.has_export() / version.get_export_key(): a key exists in the store.
has_export(v) == v \in store

\* export_source.delay(version.id) under celery_once: the task is refused with
\* AlreadyQueued while a job of the same version is in flight.
delay(v) == IF v \in inflight THEN "AlreadyQueued" ELSE "Accepted"

\* views.py:345-351
handle_export_source_version(v) ==
    IF delay(v) = "Accepted" THEN 200 ELSE 204

\* Mutant: the HEAD guard compares against the wrong literal.
IsHeadVersion_lowercase(v) == v = "head"

\* views.py:286 and views.py:327
IsHeadVersion(v) == v = HEAD

\* views.py:281-283: the version is looked up and its export key is requested.
\* The job may complete, and other requests may be served, between this read
\* of the object store and the dispatch that follows it.
get_key(c, v) ==
    /\ CanStart(c)
    /\ req' = [req EXCEPT ![c] = Pending("GET", v, has_export(v))]
    /\ UNCHANGED <<released, is_active, store, inflight, not_export>>

\* views.py:284-305
get(c) ==
    LET r == req[c]
        v == r.version
    IN  /\ r.pc = "GET"
        /\ IF IsHeadVersion(v)
           THEN /\ req' = [req EXCEPT ![c] = Answered(r, 405, NoUrl)]
                /\ UNCHANGED inflight
           ELSE IF r.key
           THEN /\ req' = [req EXCEPT ![c] = Answered(r, 200, generate_url(v, 60))]
                /\ UNCHANGED inflight
           ELSE /\ req' = [req EXCEPT ![c] =
                              Answered(r, handle_export_source_version(v), NoUrl)]
                /\ inflight' = inflight \cup {v}
        /\ UNCHANGED <<released, is_active, store, not_export>>

\* views.py:322-332: HEAD is refused at once; otherwise has_export() is read.
post_has_export(c, v) ==
    /\ CanStart(c)
    /\ IF IsHeadVersion(v)
       THEN req' = [req EXCEPT ![c] = Answered(Pending("POST", v, FALSE), 405, NoUrl)]
       ELSE req' = [req EXCEPT ![c] = Pending("POST", v, has_export(v))]
    /\ UNCHANGED <<released, is_active, store, inflight, not_export>>

\* views.py:331-334
post(c) ==
    LET r == req[c]
        v == r.version
    IN  /\ r.pc = "POST"
        /\ IF ~r.key
           THEN /\ req' = [req EXCEPT ![c] =
                              Answered(r, handle_export_source_version(v), NoUrl)]
                /\ inflight' = inflight \cup {v}
           ELSE /\ req' = [req EXCEPT ![c] = Answered(r, 204, NoUrl)]
                /\ UNCHANGED inflight
        /\ UNCHANGED <<released, is_active, store, not_export>>

\* Mutant: the staff check is missing.
delete_unprivileged(c, v, is_staff) ==
    LET r == [Pending("DELETE", v, has_export(v)) EXCEPT !.is_staff = is_staff]
    IN  /\ CanStart(c)
        /\ store' = IF has_export(v) THEN store \ {v} ELSE store
        /\ req' = [req EXCEPT ![c] = Answered(r, 204, NoUrl)]
        /\ UNCHANGED <<released, is_active, inflight, not_export>>

\* views.py:336-343. The handler reads and writes the object store alone, and
\* is one step.
delete(c, v, is_staff) ==
    LET r == [Pending("DELETE", v, has_export(v)) EXCEPT !.is_staff = is_staff]
    IN  /\ CanStart(c)
        /\ IF ~is_staff
           THEN /\ req' = [req EXCEPT ![c] = Answered(r, 403, NoUrl)]
                /\ UNCHANGED store
           ELSE /\ store' = IF has_export(v) THEN store \ {v} ELSE store
                /\ req' = [req EXCEPT ![c] = Answered(r, 204, NoUrl)]
        /\ UNCHANGED <<released, is_active, inflight, not_export>>

\* DestroyAPIView.destroy on the version: the version is deactivated, 204.
perform_destroy(v) == [is_active EXCEPT ![v] = FALSE]

\* Mutant: the released check is missing.
destroy_unguarded(c, v) ==
    LET r == Pending("DESTROY", v, FALSE)
    IN  /\ CanStart(c)
        /\ IF ~is_active[v]
           THEN /\ req' = [req EXCEPT ![c] = Answered(r, 404, NoUrl)]
                /\ UNCHANGED is_active
           ELSE /\ is_active' = perform_destroy(v)
                /\ req' = [req EXCEPT ![c] = Answered(r, 204, NoUrl)]
        /\ UNCHANGED <<released, store, inflight, not_export>>

\* views.py:251-256; get_object() looks the version up among the active
\* versions (views.py:147) and answers 404 when it is not there.
destroy(c, v) ==
    LET r == Pending("DESTROY", v, FALSE)
    IN  /\ CanStart(c)
        /\ IF ~is_active[v]
           THEN /\ req' = [req EXCEPT ![c] = Answered(r, 404, NoUrl)]
                /\ UNCHANGED is_active
           ELSE IF released[v]
           THEN /\ req' = [req EXCEPT ![c] = Answered(r, 400, NoUrl)]
                /\ UNCHANGED is_active
           ELSE /\ is_active' = perform_destroy(v)
                /\ req' = [req EXCEPT ![c] = Answered(r, 204, NoUrl)]
        /\ UNCHANGED <<released, store, inflight, not_export>>

\* The export job of version v completes: its artifact becomes retrievable in
\* the object store and the job is no longer in flight.
export_source(v) ==
    /\ v \in inflight
    /\ store' = store \cup {v}
    /\ inflight' = inflight \ {v}
    /\ UNCHANGED <<released, is_active, req, not_export>>

(***************************************************************************)
(*                 ListWithHeadersMixin.prepend_head                       *)
(***************************************************************************)

\* The longest list prepend_head is applied to.
MaxLen == 4

\* An object of a list: its place in the list it came in, and its mnemonic
\* attribute, Absent for an object that has no such attribute.
Mnemonics == {HEAD, "v1", Absent}

hasattr_mnemonic(el) == el.mnemonic # Absent

\* The lists of n objects, the i-th carrying id i.
ListsOver(n, ms) ==
    {[i \in 1..n |-> [id |-> i, mnemonic |-> f[i]]] : f \in [1..n -> ms]}

\* A call that returned `objs`, and a call that raised AttributeError.
Returned(objs) == [called |-> TRUE, raised |-> FALSE, objects |-> objs]

Raised == [called |-> TRUE, raised |-> TRUE, objects |-> <<>>]

NotCalled == [called |-> FALSE, raised |-> FALSE, objects |-> <<>>]

IsHeadElement(el) == hasattr_mnemonic(el) /\ el.mnemonic = HEAD

\* `el.mnemonic != HEAD` of mixins.py:85, for an element that has a mnemonic.
IsNotHead(el) == el.mnemonic # HEAD

\* Mutant: the HEAD elements are put last instead of first.
prepend_head_appends(objs) ==
    IF Len(objs) > 0 /\ hasattr_mnemonic(objs[1])
    THEN LET head_el == SelectSeq(objs, IsHeadElement)
         IN  IF head_el # <<>>
             THEN IF \E i \in 1..Len(objs) : ~hasattr_mnemonic(objs[i])
                  THEN Raised
                  ELSE Returned(SelectSeq(objs, IsNotHead) \o head_el)
             ELSE Returned(objs)
    ELSE Returned(objs)

\* mixins.py:80-87. The second comprehension reads el.mnemonic of every
\* element, which raises AttributeError on one that has no such attribute.
prepend_head(objs) ==
    IF Len(objs) > 0 /\ hasattr_mnemonic(objs[1])
    THEN LET head_el == SelectSeq(objs, IsHeadElement)
         IN  IF head_el # <<>>
             THEN IF \E i \in 1..Len(objs) : ~hasattr_mnemonic(objs[i])
                  THEN Raised
                  ELSE Returned(head_el \o SelectSeq(objs, IsNotHead))
             ELSE Returned(objs)
    ELSE Returned(objs)

\* One call of the static method on the list `objects`.
call_prepend_head ==
    /\ ~prepended.called
    /\ prepended' = prepend_head(objects)
    /\ UNCHANGED <<objects, export_vars, list_vars, detail_vars, latest_vars>>

IdlePrepend == objects = <<>> /\ prepended = NotCalled

(***************************************************************************)
(*                    ListWithHeadersMixin.list                            *)
(***************************************************************************)

\* The longest queryset, the largest page size and the highest page asked for.
MaxListLen == 3

MaxPageSize == 2

MaxPage == 3

Min(a, b) == IF a < b THEN a ELSE b

\* A queryset of n objects holds objects of one model: all of them have a
\* mnemonic, or none has.
Querysets(n) == ListsOver(n, {HEAD, "v1"}) \cup ListsOver(n, {Absent})

\* The `facets` attribute of the filtered queryset: not there, or the facet
\* counts by field, which may be empty.
NoFacetsAttr == [has |-> FALSE, value |-> {}]

FacetsAttrs == {NoFacetsAttr, [has |-> TRUE, value |-> {}],
                [has |-> TRUE, value |-> {"locale"}]}

\* A request header: not sent, or sent with a value. (Sent with an empty
\* value it reads false, as when it is not sent.)
HeaderValues == {Absent, "true", "false"}

\* The local `facets` of list: None, or the attribute's value.
NoneFacets == [none |-> TRUE, value |-> {}]

\* `if facets:` -- None and the empty dict are both false.
IsTrueFacets(f) == ~f.none /\ f.value # {}

\* mixins.py:52-55
list_facets(include_facets) ==
    IF Truthy(include_facets) /\ facets_attr.has
    THEN [none |-> FALSE, value |-> facets_attr.value]
    ELSE NoneFacets

\* Mutant: pagination is skipped only when both conditions hold.
skip_pagination_both(compress, paginate_by) ==
    Truthy(compress) /\ paginate_by = 0

\* mixins.py:57-59
skip_pagination(compress, paginate_by) ==
    Truthy(compress) \/ paginate_by = 0

\* The serializer keeps the order and the number of the objects; of each
\* object the model keeps its id.
serializer_data(objs) == [i \in 1..Len(objs) |-> objs[i].id]

\* paginate_queryset of the framework: None without a page size; the page-th
\* slice of page_size objects; page 1 of an empty set is the empty page, and
\* any other page past the end is a 404.
NumPages(n, page_size) ==
    IF n = 0 THEN 1 ELSE (n + page_size - 1) \div page_size

paginate_queryset(objs, page_size, page) ==
    IF page_size = 0
    THEN [none |-> TRUE, found |-> TRUE, object_list |-> <<>>]
    ELSE IF page > NumPages(Len(objs), page_size)
    THEN [none |-> FALSE, found |-> FALSE, object_list |-> <<>>]
    ELSE [none |-> FALSE, found |-> TRUE,
          object_list |-> SubSeq(objs, (page - 1) * page_size + 1,
                                 Min(page * page_size, Len(objs)))]

\* A Response: its status, whether its results are a page, the serialized
\* results, and the facets when the body is {results, facets}.
Body(request, status, paginated, results, facets) ==
    [called |-> TRUE, request |-> request, status |-> status,
     paginated |-> paginated, results |-> results,
     envelope |-> IsTrueFacets(facets),
     facets |-> IF IsTrueFacets(facets) THEN facets.value ELSE {}]

NoResponse ==
    [called |-> FALSE,
     request |-> [include_facets |-> Absent, compress |-> Absent,
                  paginate_by |-> 0, page |-> 1],
     status |-> 0, paginated |-> FALSE, results |-> <<>>,
     envelope |-> FALSE, facets |-> {}]

\* mixins.py:46-78, for a queryset of one model (prepend_head returns).
list_response(request) ==
    LET facets  == list_facets(request.include_facets)
        ordered == prepend_head(object_list).objects
        page    == paginate_queryset(ordered, request.paginate_by, request.page)
    IN  IF ~skip_pagination(request.compress, request.paginate_by) /\ ~page.none
        THEN IF page.found
             THEN Body(request, 200, TRUE, serializer_data(page.object_list), facets)
             ELSE Body(request, 404, FALSE, <<>>, NoneFacets)
        ELSE Body(request, 200, FALSE, serializer_data(ordered), facets)

Requests ==
    [include_facets : HeaderValues, compress : HeaderValues,
     paginate_by : 0..MaxPageSize, page : 1..MaxPage]

\* One GET of a list view; its response depends on no earlier one.
list(request) ==
    /\ ~response.called
    /\ response' = list_response(request)
    /\ UNCHANGED <<object_list, facets_attr, export_vars, prepend_vars, detail_vars,
                 latest_vars>>

IdleList == object_list = <<>> /\ facets_attr = NoFacetsAttr /\ response = NoResponse

(***************************************************************************)
(*               SourceRetrieveUpdateDestroyView.retrieve                  *)
(***************************************************************************)

\* The most children (concept versions and mappings together) in the store,
\* the latest time of an update, the largest offset and the largest limit.
MaxChildren == 2

MaxTime == 2

MaxOffset == 1

MaxLimit == 2

\* A child in the store, in id order: a concept version or a mapping, with
\* its flags, whether its id is in the latest source version's set of
\* concepts (mappings), and when it was last updated.
Child ==
    [kind : {"concept", "mapping"}, is_active : BOOLEAN, retired : BOOLEAN,
     in_version : BOOLEAN, updated_at : 1..MaxTime]

\* The stores of n children, the i-th carrying id i.
ChildLists(n) ==
    {[i \in 1..n |-> [id |-> i, kind |-> f[i].kind,
                      is_active |-> f[i].is_active,
                      retired |-> f[i].retired,
                      in_version |-> f[i].in_version,
                      updated_at |-> f[i].updated_at]] : f \in [1..n -> Child]}

\* Query parameters are strings; includeRetired is read with
\* QUERY_PARAMS.get(name, False) and used as it is.
FlagValues == {Absent, "true", "false"}

\* updatedSince as parse_updated_since_param returns it, 0 for None; offset
\* as int() reads it; limit as views.py:72-81 resolve it from the settings.
DetailRequests ==
    [includeConcepts : {Absent, "true"}, includeMappings : {Absent, "true"},
     includeRetired : FlagValues, updatedSince : {0, MaxTime},
     offset : 0..MaxOffset, limit : 1..MaxLimit]

\* Model.objects, the rows of one kind in id order.
objects_of(kind) ==
    LET IsKind(ch) == ch.kind = kind IN SelectSeq(children, IsKind)

\* queryset[offset:offset+limit]
Slice(q, offset, limit) == SubSeq(q, offset + 1, Min(offset + limit, Len(q)))

\* views.py:73, 77, 82: whether the retired children are kept.
include_retired(request) ==
    IF Truthy(request.includeConcepts) \/ Truthy(request.includeMappings)
    THEN Truthy(request.includeRetired)
    ELSE FALSE

\* views.py:76, 83
updated_since(request) ==
    IF Truthy(request.includeConcepts) \/ Truthy(request.includeMappings)
    THEN request.updatedSince
    ELSE 0

\* views.py:86-95 for the concepts and views.py:98-107 for the mappings: the
\* same filters, then the window, then the serializer.
child_data(kind, request) ==
    LET Kept(ch) ==
            /\ ch.is_active
            /\ (~include_retired(request) => ~ch.retired)
            /\ (updated_since(request) # 0 => ch.updated_at >= updated_since(request))
            /\ ch.in_version
    IN  serializer_data(
            Slice(SelectSeq(objects_of(kind), Kept), request.offset, request.limit))

NoDetail ==
    [called |-> FALSE,
     request |-> [includeConcepts |-> Absent, includeMappings |-> Absent,
                  includeRetired |-> Absent, updatedSince |-> 0,
                  offset |-> 0, limit |-> 1],
     has_concepts |-> FALSE, concepts |-> <<>>,
     has_mappings |-> FALSE, mappings |-> <<>>]

\* views.py:60-109: the data of the response, with its `concepts` and
\* `mappings` keys when they were asked for.
retrieve_data(request) ==
    [called |-> TRUE, request |-> request,
     has_concepts |-> Truthy(request.includeConcepts),
     concepts |-> IF Truthy(request.includeConcepts)
                  THEN child_data("concept", request) ELSE <<>>,
     has_mappings |-> Truthy(request.includeMappings),
     mappings |-> IF Truthy(request.includeMappings)
                  THEN child_data("mapping", request) ELSE <<>>]

\* One GET of the source detail; its response depends on no earlier one.
retrieve(request) ==
    /\ ~detail.called
    /\ detail' = retrieve_data(request)
    /\ UNCHANGED <<children, export_vars, prepend_vars, list_vars, latest_vars>>

IdleDetail == children = <<>> /\ detail = NoDetail

(***************************************************************************)
(*        SourceVersionRetrieveUpdateView.get_object with is_latest        *)
(***************************************************************************)

\* The most versions a source has beside HEAD, and the latest creation time.
MaxVersions == 2

MaxCreated == 3

\* The versions of one source in the order they were inserted: HEAD first,
\* never released, then n other versions. Two versions may have been
\* created at the same time.
VersionRow ==
    [is_active : BOOLEAN, released : BOOLEAN, created_at : 1..MaxCreated]

VersionLists(n) ==
    {[i \in 1..(n + 1) |->
         [id |-> i, mnemonic |-> IF i = 1 THEN HEAD ELSE "v",
          is_active |-> f[i].is_active,
          released |-> IF i = 1 THEN FALSE ELSE f[i].released,
          created_at |-> f[i].created_at]] : f \in [1..(n + 1) -> VersionRow]}

\* Mutant: the released filter is not applied.
latest_queryset_unfiltered ==
    {i \in 1..Len(versions) : versions[i].is_active}

\* views.py:147, 235, 239-240: the active versions (the view's queryset),
\* filtered by released = True.
latest_queryset ==
    {i \in 1..Len(versions) : versions[i].is_active /\ versions[i].released}

\* views.py:235: order_by('-created_at'); the rows that may come first in
\* that order (the store does not say which of two created together does).
first_by_created_at(ids) ==
    {i \in ids : \A j \in ids : versions[j].created_at <= versions[i].created_at}

NotResolved == [called |-> FALSE, status |-> 0, id |-> 0]

\* views.py:231-245 with is_latest: get_list_or_404(...)[0], which raises
\* Http404 on an empty list.
get_object_latest ==
    /\ ~latest.called
    /\ IF latest_queryset = {}
       THEN latest' = [called |-> TRUE, status |-> 404, id |-> 0]
       ELSE \E i \in first_by_created_at(latest_queryset) :
               latest' = [called |-> TRUE, status |-> 200, id |-> i]
    /\ UNCHANGED <<versions, export_vars, prepend_vars, list_vars, detail_vars>>

IdleLatest == versions = <<>> /\ latest = NotResolved

\* HEAD is never released; any other version may or may not be. The object
\* store is external to the views and may hold any keys.
InitExport ==
    /\ released \in {f \in [Versions -> BOOLEAN] : ~f[HEAD]}
    /\ is_active = [v \in Versions |-> TRUE]
    /\ store \in SUBSET Versions
    /\ inflight = {}
    /\ req = [c \in Clients |-> NoRequest]

\* The other specifications leave the export views at rest.
IdleExport ==
    /\ released = [v \in Versions |-> FALSE]
    /\ is_active = [v \in Versions |-> TRUE]
    /\ store = {}
    /\ inflight = {}
    /\ req = [c \in Clients |-> NoRequest]

Init == InitExport /\ IdlePrepend /\ IdleList /\ IdleDetail /\ IdleLatest

Next ==
    \/ \E c \in Clients, v \in Versions : get_key(c, v)
    \/ \E c \in Clients : get(c)
    \/ \E c \in Clients, v \in Versions : post_has_export(c, v)
    \/ \E c \in Clients : post(c)
    \/ \E c \in Clients, v \in Versions, s \in BOOLEAN : delete(c, v, s)
    \/ \E c \in Clients, v \in Versions : destroy(c, v)
    \/ \E v \in Versions : export_source(v)

Spec == Init /\ [][Next]_vars

\* prepend_head applied to every list of at most MaxLen objects.
InitPrepend ==
    /\ objects \in UNION {ListsOver(n, Mnemonics) : n \in 0..MaxLen}
    /\ prepended = NotCalled
    /\ IdleExport /\ IdleList /\ IdleDetail /\ IdleLatest

NextPrepend == call_prepend_head

SpecPrepend == InitPrepend /\ [][NextPrepend]_vars

\* list over every queryset of at most MaxListLen objects.
InitList ==
    /\ object_list \in UNION {Querysets(n) : n \in 0..MaxListLen}
    /\ facets_attr \in FacetsAttrs
    /\ response = NoResponse
    /\ IdleExport /\ IdlePrepend /\ IdleDetail /\ IdleLatest

NextList == \E request \in Requests : list(request)

SpecList == InitList /\ [][NextList]_vars

\* retrieve over every store of at most MaxChildren children.
InitDetail ==
    /\ children \in UNION {ChildLists(n) : n \in 0..MaxChildren}
    /\ detail = NoDetail
    /\ IdleExport /\ IdlePrepend /\ IdleList /\ IdleLatest

NextDetail == \E request \in DetailRequests : retrieve(request)

SpecDetail == InitDetail /\ [][NextDetail]_vars

\* get_object over every source of at most MaxVersions versions beside HEAD.
InitLatest ==
    /\ versions \in UNION {VersionLists(n) : n \in 0..MaxVersions}
    /\ latest = NotResolved
    /\ IdleExport /\ IdlePrepend /\ IdleList /\ IdleDetail

NextLatest == get_object_latest

SpecLatest == InitLatest /\ [][NextLatest]_vars

(***************************************************************************)
(*                 CLAIMS ABOUT THE EXPORT AND DESTROY VIEWS               *)
(***************************************************************************)

\* The step in which client c receives the answer to a request `op`.
Answers(c, op) ==
    /\ req'[c] # req[c]
    /\ req'[c].pc = "done"
    /\ req'[c].op = op

\* C1. Export idempotence: when two GET export requests for the same non-HEAD
\* version are in progress together and neither found an artifact, each of
\* them answers 204, or 200 only if the artifact exists by the time it
\* answers; and a job of the version is in flight once either has answered.
C1_ExportIdempotence ==
    [][\A c \in Clients, d \in Clients :
          ( /\ c # d
            /\ req[c].pc = "GET" /\ req[d].pc = "GET"
            /\ req[c].version = req[d].version
            /\ ~IsHeadVersion(req[c].version)
            /\ ~req[c].key /\ ~req[d].key
            /\ req[c].version \notin store'
            /\ Answers(c, "GET") )
          => /\ req'[c].status = 204
             /\ req'[c].url = NoUrl
             /\ req'[c].version \in inflight']_vars

\* C2. HEAD is never exported: GET export and POST export of HEAD answer 405,
\* whether or not an artifact of HEAD exists, and no job of HEAD is ever
\* in flight.
C2_HeadNeverExported ==
    /\ HEAD \notin inflight
    /\ \A c \in Clients :
          ( /\ req[c].pc = "done"
            /\ req[c].op \in {"GET", "POST"}
            /\ req[c].version = HEAD )
          => req[c].status = 405 /\ req[c].url = NoUrl

\* C2 witness: with an artifact of HEAD in the store, one client was answered
\* 405 to GET export of HEAD (having found the key) and the other to POST.
C2_Witness ==
    /\ HEAD \in store
    /\ \E c \in Clients, d \in Clients :
          /\ req[c].pc = "done" /\ req[c].op = "GET" /\ req[c].version = HEAD
          /\ req[c].key /\ req[c].status = 405
          /\ req[d].pc = "done" /\ req[d].op = "POST" /\ req[d].version = HEAD
          /\ req[d].status = 405

\* C3. GET export of a non-HEAD version: with an artifact it answers 200 with
\* a signed url of expiry 60 and enqueues nothing; with none it dispatches the
\* job and answers 204 with no url. So a 200 is answered only with an artifact.
C3_GetExportUrl ==
    [][\A c \in Clients :
          (Answers(c, "GET") /\ ~IsHeadVersion(req'[c].version))
          => IF req'[c].key
             THEN /\ req'[c].status = 200
                  /\ req'[c].url = generate_url(req'[c].version, 60)
                  /\ inflight' = inflight
             ELSE /\ req'[c].status = 204
                  /\ req'[c].url = NoUrl
                  /\ req'[c].version \in inflight']_vars

\* C4. POST export of a non-HEAD version: with no artifact it dispatches the
\* job and answers 204 when the job is newly dispatched; with an artifact it
\* dispatches nothing and answers 200; the answer never carries a url.
C4_PostExportTrigger ==
    [][\A c \in Clients :
          (Answers(c, "POST") /\ ~IsHeadVersion(req'[c].version))
          => /\ req'[c].url = NoUrl
             /\ IF req'[c].key
                THEN /\ req'[c].status = 200
                     /\ inflight' = inflight
                ELSE /\ req'[c].version \in inflight'
                     /\ (req'[c].version \notin inflight => req'[c].status = 204)]_vars

\* C5 as stated: on a released version both version-destroy and deleteExport
\* answer 400, the version stays active and its artifact stays in the store.
C5_ReleasedGuardOnBoth ==
    [][\A c \in Clients :
          ( /\ Answers(c, "DESTROY") \/ Answers(c, "DELETE")
            /\ released[req'[c].version] )
          => /\ req'[c].status = 400
             /\ is_active' = is_active
             /\ store' = store]_vars

\* C5 as amended: on a released version that is active, version-destroy
\* answers 400, the version stays active and its artifact stays in the store;
\* and no released version is ever deactivated. (deleteExport has no such
\* guard.)
C5_DestroyReleasedGuard ==
    [][/\ \A c \in Clients :
            (Answers(c, "DESTROY") /\ released[req'[c].version])
            => /\ req'[c].status = 400
               /\ is_active' = is_active
               /\ store' = store
       /\ \A v \in Versions : released[v] => is_active'[v]]_vars

\* C5 witness: destroy of a released version that has an artifact was
\* answered 400.
C5_Witness ==
    \E c \in Clients :
        /\ req[c].pc = "done" /\ req[c].op = "DESTROY"
        /\ released[req[c].version]
        /\ req[c].version \in store
        /\ req[c].status = 400

\* C6. deleteExport: a caller that is not staff is answered 403 and the store
\* is left as it was; a staff caller is answered 204 whether or not an
\* artifact existed, and afterwards the version has no artifact while every
\* other key is untouched (so a repeat answers 204 on the same store).
C6_DeleteExport ==
    [][\A c \in Clients :
          Answers(c, "DELETE")
          => IF req'[c].is_staff
             THEN /\ req'[c].status = 204
                  /\ req'[c].version \notin store'
                  /\ store' = store \ {req'[c].version}
             ELSE /\ req'[c].status = 403
                  /\ store' = store]_vars

\* C6 witness: a staff caller deleted an artifact that existed (204), the
\* other staff caller repeated the delete with none left (204 again), and the
\* version has no artifact.
C6_Witness ==
    \E c \in Clients, d \in Clients :
        /\ req[c].pc = "done" /\ req[c].op = "DELETE" /\ req[c].is_staff
        /\ req[c].key /\ req[c].status = 204
        /\ req[d].pc = "done" /\ req[d].op = "DELETE" /\ req[d].is_staff
        /\ req[d].version = req[c].version
        /\ ~req[d].key /\ req[d].status = 204
        /\ req[c].version \notin store

(***************************************************************************)
(*                   CLAIMS ABOUT THE LIST RESPONSES                       *)
(***************************************************************************)

\* The elements whose mnemonic is HEAD, then the others, each in list order.
HasHeadMnemonic(el) == el.mnemonic = HEAD

HasOtherMnemonic(el) == el.mnemonic # HEAD

HeadFirst(objs) ==
    SelectSeq(objs, HasHeadMnemonic) \o SelectSeq(objs, HasOtherMnemonic)

\* C7. prepend_head is a stable permutation of every list: the HEAD elements
\* in their order, then the other elements in theirs (which is the list
\* itself when it has no HEAD element), wherever HEAD sits and whether or
\* not the first element has a mnemonic.
C7_StablePermutation ==
    prepended.called
    => /\ ~prepended.raised
       /\ prepended.objects = HeadFirst(objects)

\* C9. Pagination or all: with the compress header, or a page size of 0, the
\* response holds the whole HEAD-first set; otherwise it holds the page-th
\* slice of the HEAD-first set, of min(page size, remaining) objects.
C9_PaginationVsCompress ==
    (response.called /\ response.status = 200)
    => LET r    == response.request
           full == serializer_data(HeadFirst(object_list))
           from == (r.page - 1) * r.paginate_by
       IN  IF r.compress # Absent \/ r.paginate_by = 0
           THEN /\ ~response.paginated
                /\ response.results = full
                /\ Len(response.results) = Len(object_list)
           ELSE /\ response.paginated
                /\ Len(response.results) = Min(r.paginate_by, Len(full) - from)
                /\ \A i \in 1..Len(response.results) :
                      response.results[i] = full[from + i]

\* C9 witness: the second page of a set of three, one object short of the
\* page size of two, taken after HEAD moved from the last place to the first.
C9_Witness ==
    /\ response.called /\ response.status = 200 /\ response.paginated
    /\ response.request.paginate_by = 2 /\ response.request.page = 2
    /\ Len(object_list) = 3
    /\ object_list[3].mnemonic = HEAD /\ object_list[1].mnemonic = "v1"
    /\ response.results = <<2>>

\* C10. The body is {results, facets} exactly when the include-facets header
\* was sent and the queryset has facet data, be the data empty or not, and
\* be the results a page or the whole set.
C10_FacetsIff ==
    (response.called /\ response.status = 200)
    => (response.envelope
          <=> (response.request.include_facets # Absent /\ facets_attr.has))

(***************************************************************************)
(*                   CLAIMS ABOUT THE DETAIL RESPONSE                      *)
(***************************************************************************)

\* The child with id `id` may be returned to a request that does not ask for
\* the retired ones: it is of the kind, active, not retired, in the version.
ReturnableUnretired(id, kind) ==
    /\ id \in 1..Len(children)
    /\ children[id].kind = kind
    /\ children[id].is_active
    /\ ~children[id].retired
    /\ children[id].in_version

\* C8. With includeRetired absent or given as false, the concepts (mappings)
\* returned are active, not retired and in the latest version's set; a
\* retired child is returned only when includeRetired is true.
C8_RetiredExcluded ==
    (detail.called /\ detail.request.includeRetired \in {Absent, "false"})
    => /\ \A i \in 1..Len(detail.concepts) :
             ReturnableUnretired(detail.concepts[i], "concept")
       /\ \A i \in 1..Len(detail.mappings) :
             ReturnableUnretired(detail.mappings[i], "mapping")

(***************************************************************************)
(*                 CLAIMS ABOUT THE LATEST VERSION                         *)
(***************************************************************************)

\* C11. Latest-version rule: the version resolved is active and released, and
\* no active released version was created after it; it is never an unreleased
\* version, so never HEAD; and with no active released version the answer is
\* 404 and no version.
C11_LatestVersion ==
    latest.called
    => IF \E i \in 1..Len(versions) : versions[i].is_active /\ versions[i].released
       THEN /\ latest.status = 200
            /\ latest.id \in 1..Len(versions)
            /\ versions[latest.id].is_active
            /\ versions[latest.id].released
            /\ versions[latest.id].mnemonic # HEAD
            /\ \A j \in 1..Len(versions) :
                  (versions[j].is_active /\ versions[j].released)
                  => versions[j].created_at <= versions[latest.id].created_at
       ELSE latest.status = 404 /\ latest.id = 0

\* C11 witness: the later of two active released versions was resolved, while
\* HEAD, active and created after both, was passed over.
C11_Witness ==
    /\ latest.called /\ latest.status = 200
    /\ Len(versions) = 3
    /\ versions[1].is_active
    /\ versions[1].created_at > versions[latest.id].created_at
    /\ \E j \in 2..3 :
          /\ j # latest.id
          /\ versions[j].is_active /\ versions[j].released
          /\ versions[j].created_at < versions[latest.id].created_at

====
